---------------------------- MODULE Spec2Model ----------------------------
(***************************************************************************)
(* State-machine model of ROOT::Experimental::TWebWindow                   *)
(* (gui/webdisplay/src/TWebWindow.cxx): the websocket event handler        *)
(* ProcessWS, the credit accounting of SendDataViaConnection, the drain    *)
(* pass CheckDataToSend and the submission path SubmitData.                *)
(*                                                                         *)
(* Every handler is one atomic action.  Text is modelled as a sequence of  *)
(* one-character strings so that strtoul, find and substr are computed as  *)
(* the code computes them.                                                 *)
(***************************************************************************)
EXTENDS Integers, Sequences, FiniteSets, TLC

VARIABLES
    fConn,            \* std::vector<WebConn>: the connection registry
    fConnCnt,         \* counter of connection ids handed out
    fKeys,            \* key table: key -> process id
    fPanelName,       \* configured panel name ("" when none)
    fConnLimit,       \* number of allowed connections, 0 - unlimited
    fNativeOnlyConn,  \* only connections bearing a known key are accepted
    fDataCallback,    \* TRUE when a data callback is assigned
    fWSHandler,       \* TRUE when the websocket handler exists
    out,              \* what the last handler did: result, log, callbacks, frames
    gSince,           \* history: per connection id, frames decoded since the last frame sent
    gNote,            \* history: ids told CONN_CLOSED; per connection id, CONN_READY count
    gRun              \* two worker contexts inside handlers: their jobs, positions and locals

vars == <<fConn, fConnCnt, fKeys, fPanelName, fConnLimit, fNativeOnlyConn,
          fDataCallback, fWSHandler, out, gSince, gNote, gRun>>

---------------------------------------------------------------------------
(* Bounds of the model *)

\* connections created in one run
MaxConn == 2
\* a frame is delivered while fewer than MaxRecv frames await acknowledgment
MaxRecv == 2
\* a frame is delivered when it leaves the send credits within -MaxCredits..MaxCredits
MaxCredits == 2

---------------------------------------------------------------------------
(* Values of the program *)

\* largest value of int (fSendCredits, fRecvCount, fClientCredits are int)
INT_MAX == 2147483647
INT_MIN == -INT_MAX - 1

\* WebConn::fReady: 0 - not ready, 5 - panel requested, 10 - done
StagePending == 0
StagePanelWait == 5
StageReady == 10

\* low-water mark of the client credits below which a keep-alive is sent
KeepAliveMark == 3

\* send credits of a freshly created WebConn
InitSendCredits == 0

\* maximal number of queued items per connection
fMaxQueueLength == 2

\* process id of a connection no key was resolved for
NoProc == 0

---------------------------------------------------------------------------
(* Text *)

Str_READY == <<"R", "E", "A", "D", "Y", "=">>
Str_PANEL_READY == <<"P", "A", "N", "E", "L", "_", "R", "E", "A", "D", "Y">>
Str_SHOWPANEL == <<"S", "H", "O", "W", "P", "A", "N", "E", "L", ":">>
Str_KEEPALIVE == <<"K", "E", "E", "P", "A", "L", "I", "V", "E">>
Str_CONN_READY == <<"C", "O", "N", "N", "_", "R", "E", "A", "D", "Y">>
Str_CONN_CLOSED == <<"C", "O", "N", "N", "_", "C", "L", "O", "S", "E", "D">>
Str_CLOSE == <<"C", "L", "O", "S", "E">>

DigitChars == <<"0", "1", "2", "3", "4", "5", "6", "7", "8", "9">>

IsDigit(ch) == \E d \in 1..10 : DigitChars[d] = ch

DigitVal(ch) == (CHOOSE d \in 1..10 : DigitChars[d] = ch) - 1

IsSpace(ch) == ch = " "

\* s.find(p) == 0
StartsWith(s, p) == Len(s) >= Len(p) /\ SubSeq(s, 1, Len(p)) = p

\* s.substr(n)
Substr(s, n) == SubSeq(s, n + 1, Len(s))

\* byte at 0-based offset p of a NUL-terminated buffer
CharAt(buf, p) == IF p < Len(buf) THEN buf[p + 1] ELSE "NUL"

---------------------------------------------------------------------------
(* std::strtoul(buf + pos, &str_end, 10)                                   *)
(* The result is an unsigned long u, kept as [neg, mag]: u = mag when neg  *)
(* is FALSE and u = ULONG_MAX + 1 - mag when neg is TRUE (strtoul negates  *)
(* in the unsigned type when the text bears a minus sign).                 *)

RECURSIVE SkipSpace(_, _)
SkipSpace(buf, p) == IF IsSpace(CharAt(buf, p)) THEN SkipSpace(buf, p + 1) ELSE p

RECURSIVE ScanDigits(_, _, _)
ScanDigits(buf, p, acc) ==
    IF IsDigit(CharAt(buf, p))
    THEN ScanDigits(buf, p + 1, [val |-> acc.val * 10 + DigitVal(CharAt(buf, p)), end |-> p + 1])
    ELSE acc

Strtoul(buf, pos) ==
    LET p0 == SkipSpace(buf, pos)
        sgn == CharAt(buf, p0)
        p1 == IF sgn \in {"+", "-"} THEN p0 + 1 ELSE p0
        r == ScanDigits(buf, p1, [val |-> 0, end |-> p1])
    IN IF r.end = p1
       THEN [neg |-> FALSE, mag |-> 0, end |-> pos]      \* no conversion: str_end = nptr
       ELSE [neg |-> (sgn = "-") /\ r.val # 0, mag |-> r.val, end |-> r.end]

\* (int) u, and the low 32 bits of u taken as int
IntOfULong(u) == IF u.neg THEN 0 - u.mag ELSE u.mag

ULongIsZero(u) == u.mag = 0
ULongIsOne(u) == ~u.neg /\ u.mag = 1
ULongGtOne(u) == u.neg \/ u.mag > 1

\* a + b in 32-bit two's complement
Add32(a, b) ==
    IF a > 0 /\ b > 0 /\ b > INT_MAX - a THEN (a - INT_MAX - 1) + (b - INT_MAX - 1)
    ELSE IF a < 0 /\ b < 0 /\ b < INT_MIN - a THEN (a + INT_MAX + 1) + (b + INT_MAX + 1)
    ELSE a + b


---------------------------------------------------------------------------
(* The connection record and the working state of a handler *)

\* WebConn(connid, wsid)
NewConn(connid, wsid) ==
    [fConnId |-> connid, fWSId |-> wsid, fReady |-> StagePending,
     fRecvCount |-> 0, fSendCredits |-> InitSendCredits, fClientCredits |-> 0,
     fQueue |-> <<>>, fProcId |-> NoProc, fCallBack |-> FALSE]

\* QueueItem(chid, txt, data)
QueueItem(chid, txt, data) ==
    [fChID |-> chid, fText |-> txt, fData |-> data]

NoAckn == [neg |-> FALSE, mag |-> 0]

\* the record of one handler run
NoOut(op, id) ==
    [op |-> op, id |-> id, ret |-> "true", errs |-> <<>>, calls |-> <<>>,
     sent |-> <<>>, subs |-> <<>>, served |-> <<>>, sweeps |-> 0, direct |-> FALSE,
     decoded |-> FALSE, ackn |-> NoAckn, nchannel |-> NoAckn, cdata |-> <<>>]

\* the working state of a handler: the members it may change and its record
Work(op, id) ==
    [conn |-> fConn, cnt |-> fConnCnt, keys |-> fKeys, out |-> NoOut(op, id)]

LogError(m, msg) == [m EXCEPT !.out.errs = Append(@, msg)]

Return(m, res) == [m EXCEPT !.out.ret = IF res THEN "true" ELSE "false"]

\* an empty std::function is called: std::bad_function_call leaves the handler
Throw(m) == [m EXCEPT !.out.ret = "throw"]

\* fConn.erase(iter)
Erase(m, i) ==
    [m EXCEPT !.conn = SubSeq(@, 1, i - 1) \o SubSeq(@, i + 1, Len(@))]

\* position in fConn of the connection with the websocket id, 0 when none
FindConn(conns, wsid) ==
    IF \E i \in 1..Len(conns) : conns[i].fWSId = wsid
    THEN CHOOSE i \in 1..Len(conns) :
            conns[i].fWSId = wsid /\ \A j \in 1..(i - 1) : conns[j].fWSId # wsid
    ELSE 0

\* fDataCallback(connid, data)
CallData(m, i, data) ==
    [m EXCEPT !.out.calls = Append(@, [to |-> "data", id |-> m.conn[i].fConnId,
                                       data |-> data, stage |-> m.conn[i].fReady,
                                       proc |-> m.conn[i].fProcId])]

\* conn->fCallBack(connid, data)
CallChannel(m, i, data) ==
    [m EXCEPT !.out.calls = Append(@, [to |-> "channel", id |-> m.conn[i].fConnId,
                                       data |-> data, stage |-> m.conn[i].fReady,
                                       proc |-> m.conn[i].fProcId])]

\* fMgr->HaltClient(procid)
HaltClient(m, i) ==
    [m EXCEPT !.out.calls = Append(@, [to |-> "halt", id |-> m.conn[i].fConnId,
                                       data |-> <<>>, stage |-> m.conn[i].fReady,
                                       proc |-> m.conn[i].fProcId])]

---------------------------------------------------------------------------
(* SendDataViaConnection(conn, txt, data, chid) *)

\* SendDataViaConnection without "conn.fRecvCount = 0"
SendDataKeepRecvCount(m, i, txt, data, chid) ==
    LET conn == m.conn[i] IN
    IF conn.fWSId = 0 \/ ~fWSHandler
    THEN LogError(m, "try to send text data when connection not established")
    ELSE IF conn.fSendCredits <= 0
    THEN LogError(m, "No credits to send text data via connection")
    ELSE [m EXCEPT
            !.out.sent = Append(@, [ws |-> conn.fWSId, id |-> conn.fConnId,
                                    ackn |-> conn.fRecvCount,
                                    credits |-> conn.fSendCredits,
                                    chid |-> chid, txt |-> txt, data |-> data]),
            !.conn[i].fSendCredits = @ - 1]

SendDataViaConnection(m, i, txt, data, chid) ==
    LET conn == m.conn[i] IN
    IF conn.fWSId = 0 \/ ~fWSHandler
    THEN LogError(m, "try to send text data when connection not established")
    ELSE IF conn.fSendCredits <= 0
    THEN LogError(m, "No credits to send text data via connection")
    ELSE [m EXCEPT
            !.out.sent = Append(@, [ws |-> conn.fWSId, id |-> conn.fConnId,
                                    ackn |-> conn.fRecvCount,
                                    credits |-> conn.fSendCredits,
                                    chid |-> chid, txt |-> txt, data |-> data]),
            !.conn[i].fRecvCount = 0,
            !.conn[i].fSendCredits = @ - 1]

---------------------------------------------------------------------------
(* CheckDataToSend(only_once) *)

\* DrainOne taking fQueue.back() where the code takes fQueue.front()
DrainOneNewestFirst(m, i) ==
    LET conn == m.conn[i] IN
    IF conn.fSendCredits <= 0
    THEN [m |-> m, isany |-> FALSE]
    ELSE IF conn.fQueue # <<>>
    THEN LET item == conn.fQueue[Len(conn.fQueue)]
             m1 == SendDataViaConnection(m, i, item.fText, item.fData, item.fChID)
         IN [m |-> [m1 EXCEPT !.conn[i].fQueue = SubSeq(@, 1, Len(@) - 1)], isany |-> TRUE]
    ELSE IF conn.fClientCredits < KeepAliveMark /\ conn.fRecvCount > 1
    THEN [m |-> SendDataViaConnection(m, i, TRUE, Str_KEEPALIVE, 0), isany |-> TRUE]
    ELSE [m |-> m, isany |-> FALSE]

\* DrainOne without "conn->fQueue.pop()"
DrainOneNoPop(m, i) ==
    LET conn == m.conn[i] IN
    IF conn.fSendCredits <= 0
    THEN [m |-> m, isany |-> FALSE]
    ELSE IF conn.fQueue # <<>>
    THEN LET item == Head(conn.fQueue)
         IN [m |-> SendDataViaConnection(m, i, item.fText, item.fData, item.fChID),
             isany |-> TRUE]
    ELSE IF conn.fClientCredits < KeepAliveMark /\ conn.fRecvCount > 1
    THEN [m |-> SendDataViaConnection(m, i, TRUE, Str_KEEPALIVE, 0), isany |-> TRUE]
    ELSE [m |-> m, isany |-> FALSE]

\* DrainOne with "conn.fRecvCount > 0" as the keep-alive test
DrainOneEagerKeepAlive(m, i) ==
    LET conn == m.conn[i] IN
    IF conn.fSendCredits <= 0
    THEN [m |-> m, isany |-> FALSE]
    ELSE IF conn.fQueue # <<>>
    THEN LET item == Head(conn.fQueue)
             m1 == SendDataViaConnection(m, i, item.fText, item.fData, item.fChID)
         IN [m |-> [m1 EXCEPT !.conn[i].fQueue = Tail(@)], isany |-> TRUE]
    ELSE IF conn.fClientCredits < KeepAliveMark /\ conn.fRecvCount > 0
    THEN [m |-> SendDataViaConnection(m, i, TRUE, Str_KEEPALIVE, 0), isany |-> TRUE]
    ELSE [m |-> m, isany |-> FALSE]

\* the body of "for (auto &&conn : fConn)" for the connection at position i
DrainOne(m, i) ==
    LET conn == m.conn[i] IN
    IF conn.fSendCredits <= 0
    THEN [m |-> m, isany |-> FALSE]
    ELSE IF conn.fQueue # <<>>
    THEN LET item == Head(conn.fQueue)
             m1 == SendDataViaConnection(m, i, item.fText, item.fData, item.fChID)
         IN [m |-> [m1 EXCEPT !.conn[i].fQueue = Tail(@)], isany |-> TRUE]
    ELSE IF conn.fClientCredits < KeepAliveMark /\ conn.fRecvCount > 1
    THEN [m |-> SendDataViaConnection(m, i, TRUE, Str_KEEPALIVE, 0), isany |-> TRUE]
    ELSE [m |-> m, isany |-> FALSE]

RECURSIVE Sweep(_, _, _)
Sweep(m, i, isany) ==
    IF i > Len(m.conn)
    THEN [m |-> m, isany |-> isany]
    ELSE LET r == DrainOne(m, i) IN Sweep(r.m, i + 1, isany \/ r.isany)

\* the value of only_once where the caller passes none
OnlyOnceDefault == FALSE

\* CheckDataToSend leaving after the first sweep
CheckDataToSendOnce(m, only_once) ==
    (Sweep([m EXCEPT !.out.sweeps = @ + 1], 1, FALSE)).m

RECURSIVE CheckDataToSend(_, _)
CheckDataToSend(m, only_once) ==
    LET r == Sweep([m EXCEPT !.out.sweeps = @ + 1], 1, FALSE) IN
    IF r.isany /\ ~only_once THEN CheckDataToSend(r.m, only_once) ELSE r.m

---------------------------------------------------------------------------
(* SubmitData(connid, txt, data, chid) *)

\* what is left in a std::string after std::move took its content
MovedFrom == <<>>

\* the record notes what SubmitData did for a connection and with which data
Served(m, id, how, data) ==
    [m EXCEPT !.out.served = Append(@, [id |-> id, how |-> how, data |-> data])]

\* conn.fQueue.emplace(chid, txt, data)
Enqueue(m, i, chid, txt, data) ==
    [m EXCEPT !.conn[i].fQueue = Append(@, QueueItem(chid, txt, data))]

\* SubmitOne with "size() <= fMaxQueueLength" where the code has "<"
SubmitOneOffByOne(w, i, connid, txt, chid) ==
    LET conn == w.m.conn[i] IN
    IF connid # 0 /\ connid # conn.fConnId
    THEN w
    ELSE IF conn.fQueue = <<>> /\ conn.fSendCredits > 0
    THEN [w EXCEPT !.m = Served(SendDataViaConnection(w.m, i, txt, w.data, chid),
                                conn.fConnId, "direct", w.data)]
    ELSE IF Len(conn.fQueue) <= fMaxQueueLength
    THEN [w EXCEPT !.cnt = @ - 1,
                   !.m = Enqueue(Served(w.m, conn.fConnId, "copy", w.data), i, chid, txt, w.data)]
    ELSE [w EXCEPT !.m = Served(LogError(w.m, "Maximum queue length achieved"),
                                conn.fConnId, "overflow", w.data)]

\* SubmitOne moving the data into every enqueue
SubmitOneAlwaysMove(w, i, connid, txt, chid) ==
    LET conn == w.m.conn[i] IN
    IF connid # 0 /\ connid # conn.fConnId
    THEN w
    ELSE IF conn.fQueue = <<>> /\ conn.fSendCredits > 0
    THEN [w EXCEPT !.m = Served(SendDataViaConnection(w.m, i, txt, w.data, chid),
                                conn.fConnId, "direct", w.data)]
    ELSE IF Len(conn.fQueue) < fMaxQueueLength
    THEN [w EXCEPT !.cnt = @ - 1,
                   !.m = Enqueue(Served(w.m, conn.fConnId, "move", w.data), i, chid, txt, w.data),
                   !.data = MovedFrom]
    ELSE [w EXCEPT !.m = Served(LogError(w.m, "Maximum queue length achieved"),
                                conn.fConnId, "overflow", w.data)]

\* the body of the loop for the connection at position i; w carries the
\* working state, the counter cnt and the (possibly moved-from) data
SubmitOne(w, i, connid, txt, chid) ==
    LET conn == w.m.conn[i] IN
    IF connid # 0 /\ connid # conn.fConnId
    THEN w
    ELSE IF conn.fQueue = <<>> /\ conn.fSendCredits > 0
    THEN [w EXCEPT !.m = Served(SendDataViaConnection(w.m, i, txt, w.data, chid),
                                conn.fConnId, "direct", w.data)]
    ELSE IF Len(conn.fQueue) < fMaxQueueLength
    THEN IF w.cnt - 1 # 0
         THEN [w EXCEPT !.cnt = @ - 1,
                        !.m = Enqueue(Served(w.m, conn.fConnId, "copy", w.data), i, chid, txt, w.data)]
         ELSE [w EXCEPT !.cnt = @ - 1,
                        !.m = Enqueue(Served(w.m, conn.fConnId, "move", w.data), i, chid, txt, w.data),
                        !.data = MovedFrom]
    ELSE [w EXCEPT !.m = Served(LogError(w.m, "Maximum queue length achieved"),
                                conn.fConnId, "overflow", w.data)]

RECURSIVE SubmitLoop(_, _, _, _, _)
SubmitLoop(w, i, connid, txt, chid) ==
    IF i > Len(w.m.conn)
    THEN w
    ELSE SubmitLoop(SubmitOne(w, i, connid, txt, chid), i + 1, connid, txt, chid)

SubmitData(m, connid, txt, data, chid) ==
    LET cnt == IF connid # 0 THEN 1 ELSE Len(m.conn)
        m0 == [m EXCEPT !.out.subs = Append(@, [connid |-> connid, chid |-> chid,
                                                txt |-> txt, data |-> data])]
        w == SubmitLoop([m |-> m0, cnt |-> cnt, data |-> data], 1, connid, txt, chid)
    IN CheckDataToSend(w.m, OnlyOnceDefault)

\* Send submitting on the system channel
SendOnSystemChannel(m, connid, data) == SubmitData(m, connid, TRUE, data, 0)

\* Send(connid, data)
Send(m, connid, data) == SubmitData(m, connid, TRUE, data, 1)

\* SendBinary(connid, data)
SendBinary(m, connid, data) == SubmitData(m, connid, FALSE, data, 1)


---------------------------------------------------------------------------
(* CanSend(connid, direct) *)

\* the loop of CanSend from the connection at position i on
RECURSIVE CanSendFrom(_, _, _, _)
CanSendFrom(conns, i, connid, direct) ==
    IF i > Len(conns)
    THEN TRUE
    ELSE LET conn == conns[i] IN
         IF connid # 0 /\ connid # conn.fConnId
         THEN CanSendFrom(conns, i + 1, connid, direct)
         ELSE IF direct /\ (conn.fQueue # <<>> \/ conn.fSendCredits = 0)
         THEN FALSE
         ELSE IF Len(conn.fQueue) >= fMaxQueueLength
         THEN FALSE
         ELSE CanSendFrom(conns, i + 1, connid, direct)

CanSend(conns, connid, direct) == CanSendFrom(conns, 1, connid, direct)

---------------------------------------------------------------------------
(* Decoding of the frame prefix in ProcessWS                               *)
(* arg.GetPostData() is buf, with the terminating NUL CharAt supplies;     *)
(* arg.GetPostDataLength() is len.  Bytes of buf past len are what lies    *)
(* behind the payload in memory.                                           *)

Decode(buf, len) ==
    LET a == Strtoul(buf, 0)
        c == Strtoul(buf, a.end + 1)
        n == Strtoul(buf, c.end + 1)
        processed_len == n.end + 1
    IN IF CharAt(buf, a.end) # ":"
       THEN [ok |-> FALSE, err |-> "missing number of acknowledged operations"]
       ELSE IF CharAt(buf, c.end) # ":"
       THEN [ok |-> FALSE, err |-> "missing can_send counter"]
       ELSE IF CharAt(buf, n.end) # ":"
       THEN [ok |-> FALSE, err |-> "missing channel number"]
       ELSE IF processed_len > len
       THEN [ok |-> FALSE, err |-> "corrupted buffer"]
       ELSE [ok |-> TRUE,
             ackn_oper |-> [neg |-> a.neg, mag |-> a.mag],
             can_send |-> [neg |-> c.neg, mag |-> c.mag],
             nchannel |-> [neg |-> n.neg, mag |-> n.mag],
             cdata |-> SubSeq(buf, processed_len + 1, len)]

\* conn->fSendCredits += ackn_oper; conn->fRecvCount++; conn->fClientCredits = (int)can_send
Account(m, i, d) ==
    [m EXCEPT
          !.conn[i].fSendCredits = Add32(@, IntOfULong(d.ackn_oper)),
          !.conn[i].fRecvCount = @ + 1,
          !.conn[i].fClientCredits = IntOfULong(d.can_send),
          !.out.decoded = TRUE,
          !.out.ackn = d.ackn_oper,
          !.out.nchannel = d.nchannel,
          !.out.cdata = d.cdata]

\* HasKey(key)
HasKey(keys, key) == key \in DOMAIN keys

\* EraseKey leaving the entry in the table
EraseKeyKeepEntry(keys, key) == keys

\* fKeys.erase(key)
EraseKey(keys, key) == [k \in (DOMAIN keys) \ {key} |-> keys[k]]

\* IsNativeOnlyConn()
IsNativeOnlyConn == fNativeOnlyConn

---------------------------------------------------------------------------
(* ProcessWS(arg): the branches of the handler *)

\* ProcessReady without the test of the key against the native-only policy
ProcessReadyAdmitUnknown(m, i, cdata) ==
    LET key == Substr(cdata, 6)
        m1 == IF HasKey(m.keys, key)
              THEN [m EXCEPT !.conn[i].fProcId = m.keys[key],
                             !.keys = EraseKey(@, key)]
              ELSE m
    IN IF Len(fPanelName) # 0
       THEN LET m2 == Send(m1, m1.conn[i].fConnId, Str_SHOWPANEL \o fPanelName)
            IN Return(CheckDataToSend([m2 EXCEPT !.conn[i].fReady = StagePanelWait], OnlyOnceDefault), TRUE)
       ELSE IF ~fDataCallback
       THEN Throw(m1)
       ELSE LET m2 == CallData(m1, i, Str_CONN_READY)
            IN Return(CheckDataToSend([m2 EXCEPT !.conn[i].fReady = StageReady], OnlyOnceDefault), TRUE)

\* ProcessReady without "fConn.erase(iter)" when the key is refused
ProcessReadyKeepRefused(m, i, cdata) ==
    LET key == Substr(cdata, 6) IN
    IF ~HasKey(m.keys, key) /\ IsNativeOnlyConn
    THEN Return(m, FALSE)
    ELSE LET m1 == IF HasKey(m.keys, key)
                   THEN [m EXCEPT !.conn[i].fProcId = m.keys[key],
                                  !.keys = EraseKey(@, key)]
                   ELSE m
         IN IF Len(fPanelName) # 0
            THEN LET m2 == Send(m1, m1.conn[i].fConnId, Str_SHOWPANEL \o fPanelName)
                 IN Return(CheckDataToSend([m2 EXCEPT !.conn[i].fReady = StagePanelWait], OnlyOnceDefault), TRUE)
            ELSE IF ~fDataCallback
            THEN Throw(m1)
            ELSE LET m2 == CallData(m1, i, Str_CONN_READY)
                 IN Return(CheckDataToSend([m2 EXCEPT !.conn[i].fReady = StageReady], OnlyOnceDefault), TRUE)

\* nchannel == 0 with cdata "READY=<key>" on a connection not yet ready
ProcessReady(m, i, cdata) ==
    LET key == Substr(cdata, 6) IN
    IF ~HasKey(m.keys, key) /\ IsNativeOnlyConn
    THEN Return(Erase(m, i), FALSE)
    ELSE LET m1 == IF HasKey(m.keys, key)
                   THEN [m EXCEPT !.conn[i].fProcId = m.keys[key],
                                  !.keys = EraseKey(@, key)]
                   ELSE m
         IN IF Len(fPanelName) # 0
            THEN LET m2 == Send(m1, m1.conn[i].fConnId, Str_SHOWPANEL \o fPanelName)
                 IN Return(CheckDataToSend([m2 EXCEPT !.conn[i].fReady = StagePanelWait], OnlyOnceDefault), TRUE)
            ELSE IF ~fDataCallback
            THEN Throw(m1)
            ELSE LET m2 == CallData(m1, i, Str_CONN_READY)
                 IN Return(CheckDataToSend([m2 EXCEPT !.conn[i].fReady = StageReady], OnlyOnceDefault), TRUE)

\* the dispatch on the channel number, after the accounting
Dispatch(m, i, d) ==
    LET conn == m.conn[i] IN
    IF ULongIsZero(d.nchannel)
    THEN IF StartsWith(d.cdata, Str_READY) /\ conn.fReady = 0
         THEN ProcessReady(m, i, d.cdata)
         ELSE Return(CheckDataToSend(m, OnlyOnceDefault), TRUE)
    ELSE IF Len(fPanelName) # 0 /\ conn.fReady < StageReady
    THEN IF ~fDataCallback
         THEN Throw(m)
         ELSE IF d.cdata = Str_PANEL_READY
         THEN LET m1 == CallData(m, i, Str_CONN_READY)
              IN Return(CheckDataToSend([m1 EXCEPT !.conn[i].fReady = StageReady], OnlyOnceDefault), TRUE)
         ELSE Return(CheckDataToSend(Erase(CallData(m, i, Str_CONN_CLOSED), i), OnlyOnceDefault), TRUE)
    ELSE IF ULongIsOne(d.nchannel)
    THEN IF ~fDataCallback
         THEN Throw(m)
         ELSE Return(CheckDataToSend(CallData(m, i, d.cdata), OnlyOnceDefault), TRUE)
    ELSE IF ULongGtOne(d.nchannel)
    THEN IF ~conn.fCallBack
         THEN Throw(m)
         ELSE Return(CheckDataToSend(CallChannel(m, i, d.cdata), OnlyOnceDefault), TRUE)
    ELSE Return(CheckDataToSend(m, OnlyOnceDefault), TRUE)

\* ProcessData counting the frame before its prefix is checked
ProcessDataCountFirst(m, i, arg) ==
    IF i = 0
    THEN Return(LogError(m, "Get websocket data without valid connection - ignore!!!"), FALSE)
    ELSE IF arg.len <= 0
    THEN Return(m, TRUE)
    ELSE LET d == Decode(arg.buf, arg.len) IN
         IF ~d.ok
         THEN Return(LogError([m EXCEPT !.conn[i].fRecvCount = @ + 1], d.err), FALSE)
         ELSE Dispatch(Account(m, i, d), i, d)

\* WS_DATA
ProcessData(m, i, arg) ==
    IF i = 0
    THEN Return(LogError(m, "Get websocket data without valid connection - ignore!!!"), FALSE)
    ELSE IF arg.len <= 0
    THEN Return(m, TRUE)
    ELSE LET d == Decode(arg.buf, arg.len) IN
         IF ~d.ok
         THEN Return(LogError(m, d.err), FALSE)
         ELSE Dispatch(Account(m, i, d), i, d)

\* ProcessClose halting the process before the callback is told
ProcessCloseHaltFirst(m, i) ==
    IF i # 0
    THEN LET m1 == HaltClient(m, i)
             m2 == IF fDataCallback THEN CallData(m1, i, Str_CONN_CLOSED) ELSE m1
         IN Return(Erase(m2, i), TRUE)
    ELSE Return(m, TRUE)

\* WS_CLOSE
ProcessClose(m, i) ==
    IF i # 0
    THEN LET m1 == IF fDataCallback THEN CallData(m, i, Str_CONN_CLOSED) ELSE m
         IN Return(Erase(HaltClient(m1, i), i), TRUE)
    ELSE Return(m, TRUE)

\* WS_READY
ProcessReadyEvent(m, i, arg) ==
    IF i # 0
    THEN Return(LogError(m, "WSHandle with given websocket id already exists"), FALSE)
    ELSE Return([m EXCEPT !.cnt = @ + 1,
                          !.conn = Append(@, NewConn(m.cnt + 1, arg.wsid))], TRUE)

\* WS_CONNECT
ProcessConnect(m) ==
    IF fConnLimit # 0 /\ Len(m.conn) >= fConnLimit
    THEN Return(m, FALSE)
    ELSE Return(m, TRUE)

ProcessWS(arg) ==
    LET m == Work(arg.method, arg.wsid)
        i == FindConn(m.conn, arg.wsid)
    IN IF arg.wsid = 0 THEN Return(m, TRUE)
       ELSE IF arg.method = "WS_CONNECT" THEN ProcessConnect(m)
       ELSE IF arg.method = "WS_READY" THEN ProcessReadyEvent(m, i, arg)
       ELSE IF arg.method = "WS_CLOSE" THEN ProcessClose(m, i)
       ELSE IF arg.method # "WS_DATA"
       THEN Return(LogError(m, "only WS_DATA request expected!"), FALSE)
       ELSE ProcessData(m, i, arg)


---------------------------------------------------------------------------
(* Inputs *)

Colon == <<":">>

Frame(a, c, n, p) ==
    LET buf == a \o Colon \o c \o Colon \o n \o Colon \o p
    IN [buf |-> buf, len |-> Len(buf)]

KeyA == <<"a">>
KeyZ == <<"z">>
\* the process the manager started for the key
ProcIds == {7}
ProcA == CHOOSE p \in ProcIds : TRUE

\* frames of the grammar <uint>:<uint>:<uint>:<payload>
GoodFrames ==
    {Frame(<<"2">>, <<"0">>, <<"0">>, Str_READY \o KeyA),
     Frame(<<"0">>, <<"0">>, <<"0">>, Str_READY \o KeyZ),
     Frame(<<"1">>, <<"5">>, <<"1">>, Str_PANEL_READY),
     Frame(<<"1">>, <<"0">>, <<"1">>, <<"x">>),
     Frame(<<"-", "1">>, <<"0">>, <<"1">>, <<"x">>),
     Frame(<<"0">>, <<"5">>, <<"2">>, <<"x">>)}

\* frames the decoder refuses; the last is cut short of its own prefix
BadFrames ==
    {[buf |-> <<"x", ":", "0", ":", "1", ":", "x">>, len |-> 7],
     [buf |-> <<"1", "2", ":", "n", "o", "t", "a", "n", "u", "m", "b", "e", "r", ":">>, len |-> 14],
     [buf |-> <<"1", ":", "0", ":", "1", "x", ":">>, len |-> 7],
     [buf |-> <<"1", ":", "0", ":", "1", ":", "x">>, len |-> 3]}

EmptyFrame == [buf |-> <<>>, len |-> 0]

Frames == GoodFrames \cup BadFrames \cup {EmptyFrame}

\* how a window is configured before it is shown
Configs == {[limit |-> 0, native |-> FALSE], [limit |-> 1, native |-> TRUE]}

PanelNames == {<<"f", "i", "t">>}

Methods == {"WS_CONNECT", "WS_READY", "WS_CLOSE", "WS_DATA", "WS_OTHER"}

---------------------------------------------------------------------------
(* The state after construction, and the actions *)

\* no worker context is inside a handler
NoRun == [on |-> FALSE, start |-> <<>>, w |-> <<>>]

\* the CONN_READY count of the history stops at "more than once"
OnceMore == 1 + 1

Init ==
    /\ fConn = <<>>
    /\ fConnCnt = 0
    /\ fKeys = [k \in {} |-> NoProc]
    /\ fPanelName = <<>>
    /\ \E cfg \in Configs : fConnLimit = cfg.limit /\ fNativeOnlyConn = cfg.native
    /\ fDataCallback = FALSE
    /\ fWSHandler = FALSE
    /\ out = NoOut("ctor", 0)
    /\ gSince = [id \in {} |-> 0]
    /\ gNote = [closed |-> {}, ready |-> [id \in {} |-> 0]]
    /\ gRun = NoRun

\* a handler ran to its end (or threw): its working state becomes the state
Commit(m) ==
    /\ gRun' = gRun
    /\ fConn' = m.conn
    /\ fConnCnt' = m.cnt
    /\ fKeys' = m.keys
    /\ out' = m.out
    /\ gSince' = [id \in {m.conn[i].fConnId : i \in 1..Len(m.conn)} |->
                    IF \E k \in 1..Len(m.out.sent) : m.out.sent[k].id = id
                    THEN 0
                    ELSE (IF id \in DOMAIN gSince THEN gSince[id] ELSE 0)
                         + (IF m.out.decoded /\ (\E i \in 1..Len(m.conn) :
                                 m.conn[i].fConnId = id /\ m.conn[i].fWSId = m.out.id)
                            THEN 1 ELSE 0)]
    /\ gNote' = [closed |-> gNote.closed \cup
                     {m.out.calls[k].id : k \in {l \in 1..Len(m.out.calls) :
                          m.out.calls[l].to = "data" /\ m.out.calls[l].data = Str_CONN_CLOSED}},
                 ready |-> [id \in {m.conn[i].fConnId : i \in 1..Len(m.conn)} |->
                     LET n == (IF id \in DOMAIN gNote.ready THEN gNote.ready[id] ELSE 0)
                              + Cardinality({l \in 1..Len(m.out.calls) :
                                   /\ m.out.calls[l].to = "data" /\ m.out.calls[l].id = id
                                   /\ m.out.calls[l].data = Str_CONN_READY})
                     IN IF n < OnceMore THEN n ELSE OnceMore]]

Running == out.ret # "throw"

CreateWSHandler ==
    /\ Running
    /\ ~fWSHandler
    /\ fWSHandler' = TRUE
    /\ out' = NoOut("CreateWSHandler", 0)
    /\ UNCHANGED <<fConn, fConnCnt, fKeys, fPanelName, fConnLimit, fNativeOnlyConn,
                   fDataCallback, gSince, gNote, gRun>>

SetPanelName(name) ==
    /\ Running
    /\ IF fConn # <<>>
       THEN /\ out' = [NoOut("SetPanelName", 0) EXCEPT
                          !.errs = <<"Cannot configure panel when connection exists">>]
            /\ UNCHANGED fPanelName
       ELSE /\ out' = NoOut("SetPanelName", 0)
            /\ fPanelName' = name
    /\ UNCHANGED <<fConn, fConnCnt, fKeys, fConnLimit, fNativeOnlyConn,
                   fDataCallback, fWSHandler, gSince, gNote, gRun>>

SetDataCallBack ==
    /\ Running
    /\ ~fDataCallback
    /\ fDataCallback' = TRUE
    /\ out' = NoOut("SetDataCallBack", 0)
    /\ UNCHANGED <<fConn, fConnCnt, fKeys, fPanelName, fConnLimit, fNativeOnlyConn,
                   fWSHandler, gSince, gNote, gRun>>

\* the manager announces a key before the client connects
AddKey(key, proc) ==
    /\ Running
    /\ fConn = <<>>
    /\ key \notin DOMAIN fKeys
    /\ fKeys' = [k \in (DOMAIN fKeys) \cup {key} |-> IF k = key THEN proc ELSE fKeys[k]]
    /\ out' = NoOut("AddKey", 0)
    /\ UNCHANGED <<fConn, fConnCnt, fPanelName, fConnLimit, fNativeOnlyConn,
                   fDataCallback, fWSHandler, gSince, gNote, gRun>>

\* a callback for the extra channels is assigned to a connection that is ready
SetChannelCallBack(i) ==
    /\ Running
    /\ i \in 1..Len(fConn)
    /\ fConn[i].fReady = StageReady
    /\ ~fConn[i].fCallBack
    /\ fConn' = [fConn EXCEPT ![i].fCallBack = TRUE]
    /\ out' = NoOut("SetChannelCallBack", fConn[i].fConnId)
    /\ UNCHANGED <<fConnCnt, fKeys, fPanelName, fConnLimit, fNativeOnlyConn,
                   fDataCallback, fWSHandler, gSince, gNote, gRun>>

\* the counters of every connection are within the bounds of the model
InBounds(conns) ==
    \A i \in 1..Len(conns) :
        /\ conns[i].fRecvCount <= MaxRecv
        /\ conns[i].fSendCredits \in (0 - MaxCredits)..MaxCredits

\* the transport delivers an event; a run creates at most MaxConn connections
WSEvent(arg) ==
    LET i == FindConn(fConn, arg.wsid)
        m == ProcessWS(arg)
    IN /\ Running
       /\ fWSHandler
       /\ (arg.method = "WS_READY" /\ i = 0 /\ arg.wsid # 0) => fConnCnt < MaxConn
       /\ (arg.method = "WS_DATA" /\ i # 0) =>
              fConn[i].fRecvCount < MaxRecv /\ InBounds(m.conn)
       /\ Commit(m)
       /\ UNCHANGED <<fPanelName, fConnLimit, fNativeOnlyConn, fDataCallback, fWSHandler>>

WSConnect(ws) == WSEvent([wsid |-> ws, method |-> "WS_CONNECT", buf |-> <<>>, len |-> 0])
WSReady(ws) == WSEvent([wsid |-> ws, method |-> "WS_READY", buf |-> <<>>, len |-> 0])
WSClose(ws) == WSEvent([wsid |-> ws, method |-> "WS_CLOSE", buf |-> <<>>, len |-> 0])
WSOther(ws) == WSEvent([wsid |-> ws, method |-> "WS_OTHER", buf |-> <<>>, len |-> 0])
WSData(ws, f) == WSEvent([wsid |-> ws, method |-> "WS_DATA", buf |-> f.buf, len |-> f.len])

\* a call of SubmitData from outside ProcessWS
Submit(connid, txt, data, chid) ==
    /\ Running
    /\ Commit(SubmitData(Work("SubmitData", connid), connid, txt, data, chid))
    /\ UNCHANGED <<fPanelName, fConnLimit, fNativeOnlyConn, fDataCallback, fWSHandler>>

ConnIds == 0..MaxConn

\* the calls of SubmitData the model makes: SendBinary, CloseConnections and
\* CloseConnection (Send is called by ProcessWS itself)
SendBinaryAct(connid) == Submit(connid, FALSE, <<"b">>, 1)
CloseConnections == Submit(0, TRUE, Str_CLOSE, 0)
CloseConnection(connid) == connid # 0 /\ Submit(connid, TRUE, Str_CLOSE, 0)

\* a call of CanSend: const, it only answers
CanSendAct(connid, direct) ==
    /\ Running
    /\ out' = [NoOut("CanSend", connid) EXCEPT
                  !.ret = IF CanSend(fConn, connid, direct) THEN "true" ELSE "false",
                  !.direct = direct]
    /\ UNCHANGED <<fConn, fConnCnt, fKeys, fPanelName, fConnLimit, fNativeOnlyConn,
                   fDataCallback, fWSHandler, gSince, gNote, gRun>>

\* the session connects once
WSReadyOnce(ws) == (fConnCnt = 0 \/ FindConn(fConn, ws) # 0) /\ WSReady(ws)

\* one websocket session, every frame
Next ==
    \/ CreateWSHandler
    \/ \E name \in PanelNames \cup {<<>>} : SetPanelName(name)
    \/ SetDataCallBack
    \/ AddKey(KeyA, ProcA)
    \/ \E i \in 1..MaxConn : SetChannelCallBack(i)
    \/ WSConnect(1)
    \/ WSReadyOnce(1)
    \/ WSClose(1)
    \/ WSOther(1)
    \/ \E f \in Frames : WSData(1, f)
    \/ WSData(0, EmptyFrame)
    \/ \E connid \in ConnIds : SendBinaryAct(connid)
    \/ CloseConnections
    \/ \E connid \in ConnIds \ {0} : CloseConnection(connid)

Spec == Init /\ [][Next]_vars

\* the frames delivered when two sessions are open
MultiFrames ==
    {Frame(<<"2">>, <<"0">>, <<"0">>, Str_READY \o KeyA),
     [buf |-> <<"1", "2", ":", "n", "o", "t", "a", "n", "u", "m", "b", "e", "r", ":">>, len |-> 14]}

\* two sessions are opened on a window limited to one connection
MultiConfig == [limit |-> 1, native |-> FALSE]

\* a window set up to be shown: the handler exists, the callback is assigned
\* and the manager has announced a key
InitMulti ==
    /\ fConn = <<>>
    /\ fConnCnt = 0
    /\ fKeys = [k \in {KeyA} |-> ProcA]
    /\ fPanelName = <<>>
    /\ fConnLimit = MultiConfig.limit /\ fNativeOnlyConn = MultiConfig.native
    /\ fDataCallback = TRUE
    /\ fWSHandler = TRUE
    /\ out = NoOut("ctor", 0)
    /\ gSince = [id \in {} |-> 0]
    /\ gNote = [closed |-> {}, ready |-> [id \in {} |-> 0]]
    /\ gRun = NoRun

\* two websocket sessions, fewer frames
NextMulti ==
    \/ \E ws \in {1, 2} : WSConnect(ws)
    \/ \E ws \in {1, 2} : WSReady(ws)
    \/ \E ws \in {1, 2} : WSClose(ws)
    \/ \E ws \in {1, 2}, f \in MultiFrames : WSData(ws, f)
    \/ \E connid \in ConnIds : SendBinaryAct(connid)
    \/ CloseConnections

SpecMulti == InitMulti /\ [][NextMulti]_vars

\* frames a peer sends once it is connected: a grant, a negative
\* acknowledgement, and payloads that spell the notifications of the window
PeerFrames ==
    {Frame(<<"2">>, <<"0">>, <<"0">>, Str_READY \o KeyA),
     Frame(<<"-", "1">>, <<"0">>, <<"1">>, <<"x">>),
     Frame(<<"1">>, <<"0">>, <<"1">>, Str_CONN_READY),
     Frame(<<"1">>, <<"0">>, <<"1">>, Str_CONN_CLOSED)}

\* a window set up to be shown, without limit and open to any client
InitPeer ==
    /\ fConn = <<>>
    /\ fConnCnt = 0
    /\ fKeys = [k \in {KeyA} |-> ProcA]
    /\ fPanelName = <<>>
    /\ fConnLimit = 0 /\ fNativeOnlyConn = FALSE
    /\ fDataCallback = TRUE
    /\ fWSHandler = TRUE
    /\ out = NoOut("ctor", 0)
    /\ gSince = [id \in {} |-> 0]
    /\ gNote = [closed |-> {}, ready |-> [id \in {} |-> 0]]
    /\ gRun = NoRun

\* one session, the application asking CanSend before it sends
NextPeer ==
    \/ WSReady(1)
    \/ WSClose(1)
    \/ \E f \in PeerFrames : WSData(1, f)
    \/ \E connid \in ConnIds : SendBinaryAct(connid)
    \/ \E connid \in ConnIds, direct \in BOOLEAN : CanSendAct(connid, direct)

SpecPeer == InitPeer /\ [][NextPeer]_vars

---------------------------------------------------------------------------
(* Two worker contexts inside handlers of one window. Neither ProcessWS nor
   SubmitData takes a lock, so their statements interleave; a read and the
   write that follows it on the same member are separate steps. *)

Workers == {1, 2}

RaceFrames ==
    {Frame(<<"2">>, <<"0">>, <<"0">>, Str_READY \o KeyA),
     Frame(<<"1">>, <<"0">>, <<"1">>, <<"x">>)}

RaceData == <<"b">>

\* ProcessWS(arg) with a WS_DATA event on websocket ws
DataJob(ws, f) == [kind |-> "data", ws |-> ws, buf |-> f.buf, len |-> f.len, connid |-> 0]

\* SendBinary(connid, data)
SubmitJob(connid) == [kind |-> "submit", ws |-> 0, buf |-> <<>>, len |-> 0, connid |-> connid]

\* a worker entering its handler
StartOf(job) ==
    [pc |-> IF job.kind = "data" THEN "find" ELSE "sub_begin",
     job |-> job, i |-> 0, tmp |-> 0, cnt |-> 0, data |-> RaceData]

SetW(t, r) == [gRun EXCEPT !.w[t] = r]

\* the window as the worker finds it
Seen == [conn |-> fConn, cnt |-> fConnCnt, keys |-> fKeys, out |-> NoOut("worker", 0)]

\* the transport hands two events to two workers, or one event to a worker
\* while the application submits from another
Fork(j1, j2) ==
    /\ Running
    /\ fWSHandler
    /\ ~gRun.on
    /\ j1.kind = "data"
    /\ j2.kind = "data" => j2.ws # j1.ws
    /\ gRun' = [on |-> TRUE,
                start |-> [conn |-> fConn, cnt |-> fConnCnt, keys |-> fKeys],
                w |-> <<StartOf(j1), StartOf(j2)>>]
    /\ out' = NoOut("fork", 0)
    /\ UNCHANGED <<fConn, fConnCnt, fKeys, fPanelName, fConnLimit, fNativeOnlyConn,
                   fDataCallback, fWSHandler, gSince, gNote>>

\* one statement of ProcessWS with a WS_DATA event, run by worker t
DataStep(t) ==
    LET r == gRun.w[t]
        job == r.job
        d == Decode(job.buf, job.len)
        i == r.i
        key == Substr(d.cdata, 6)
    IN
    /\ gRun.on
    /\ r.job.kind = "data"
    /\ r.pc # "done"
    /\ CASE r.pc = "find" ->
              LET k == FindConn(fConn, job.ws) IN
              /\ gRun' = SetW(t, [r EXCEPT !.i = k,
                                    !.pc = IF k = 0 \/ job.len <= 0 \/ ~d.ok
                                           THEN "done" ELSE "credits_rd"])
              /\ UNCHANGED <<fConn, fKeys>>
         [] r.pc = "credits_rd" ->
              /\ gRun' = SetW(t, [r EXCEPT !.tmp = fConn[i].fSendCredits, !.pc = "credits_wr"])
              /\ UNCHANGED <<fConn, fKeys>>
         [] r.pc = "credits_wr" ->
              /\ fConn' = [fConn EXCEPT
                              ![i].fSendCredits = Add32(r.tmp, IntOfULong(d.ackn_oper)),
                              ![i].fRecvCount = @ + 1,
                              ![i].fClientCredits = IntOfULong(d.can_send)]
              /\ gRun' = SetW(t, [r EXCEPT !.pc = "dispatch"])
              /\ UNCHANGED fKeys
         [] r.pc = "dispatch" ->
              IF ULongIsZero(d.nchannel) /\ StartsWith(d.cdata, Str_READY)
                 /\ fConn[i].fReady = 0
              THEN IF ~HasKey(fKeys, key) /\ IsNativeOnlyConn
                   THEN /\ fConn' = Erase(Seen, i).conn
                        /\ gRun' = SetW(t, [r EXCEPT !.pc = "done"])
                        /\ UNCHANGED fKeys
                   ELSE /\ gRun' = SetW(t, [r EXCEPT !.pc = IF HasKey(fKeys, key)
                                                           THEN "key_get" ELSE "ready"])
                        /\ UNCHANGED <<fConn, fKeys>>
              ELSE LET m == Dispatch(Seen, i, d) IN
                   /\ fConn' = m.conn
                   /\ fKeys' = m.keys
                   /\ gRun' = SetW(t, [r EXCEPT !.pc = "done"])
         [] r.pc = "key_get" ->
              \* conn->fProcId = fKeys[key]; operator[] makes an entry when none is there
              /\ fConn' = [fConn EXCEPT ![i].fProcId =
                              IF HasKey(fKeys, key) THEN fKeys[key] ELSE NoProc]
              /\ fKeys' = [k \in DOMAIN fKeys \cup {key} |->
                              IF k \in DOMAIN fKeys THEN fKeys[k] ELSE NoProc]
              /\ gRun' = SetW(t, [r EXCEPT !.pc = "key_erase"])
         [] r.pc = "key_erase" ->
              /\ fKeys' = EraseKey(fKeys, key)
              /\ gRun' = SetW(t, [r EXCEPT !.pc = "ready"])
              /\ UNCHANGED fConn
         [] r.pc = "ready" ->
              IF Len(fPanelName) # 0
              THEN LET m == Send(Seen, fConn[i].fConnId, Str_SHOWPANEL \o fPanelName) IN
                   /\ fConn' = [m.conn EXCEPT ![i].fReady = StagePanelWait]
                   /\ gRun' = SetW(t, [r EXCEPT !.pc = "drain"])
                   /\ UNCHANGED fKeys
              ELSE IF ~fDataCallback
              THEN /\ gRun' = SetW(t, [r EXCEPT !.pc = "done"])
                   /\ UNCHANGED <<fConn, fKeys>>
              ELSE /\ fConn' = [fConn EXCEPT ![i].fReady = StageReady]
                   /\ gRun' = SetW(t, [r EXCEPT !.pc = "drain"])
                   /\ UNCHANGED fKeys
         [] r.pc = "drain" ->
              /\ fConn' = CheckDataToSend(Seen, OnlyOnceDefault).conn
              /\ gRun' = SetW(t, [r EXCEPT !.pc = "done"])
              /\ UNCHANGED fKeys
    /\ UNCHANGED <<fConnCnt, fPanelName, fConnLimit, fNativeOnlyConn,
                   fDataCallback, fWSHandler, out, gSince, gNote>>

\* one statement of SubmitData(connid, false, data, 1), run by worker t
SubmitStep(t) ==
    LET r == gRun.w[t]
        connid == r.job.connid
        i == r.i
    IN
    /\ gRun.on
    /\ r.job.kind = "submit"
    /\ r.pc # "done"
    /\ CASE r.pc = "sub_begin" ->
              /\ gRun' = SetW(t, [r EXCEPT !.cnt = IF connid # 0 THEN 1 ELSE Len(fConn),
                                           !.i = 1, !.pc = "sub_next"])
              /\ UNCHANGED fConn
         [] r.pc = "sub_next" ->
              IF i > Len(fConn)
              THEN /\ gRun' = SetW(t, [r EXCEPT !.pc = "drain"])
                   /\ UNCHANGED fConn
              ELSE IF connid # 0 /\ connid # fConn[i].fConnId
              THEN /\ gRun' = SetW(t, [r EXCEPT !.i = @ + 1])
                   /\ UNCHANGED fConn
              ELSE IF fConn[i].fQueue = <<>> /\ fConn[i].fSendCredits > 0
              THEN /\ gRun' = SetW(t, [r EXCEPT !.pc = "send_rd"])
                   /\ UNCHANGED fConn
              ELSE LET w == SubmitOne([m |-> Seen, cnt |-> r.cnt, data |-> r.data],
                                      i, connid, FALSE, 1) IN
                   /\ fConn' = w.m.conn
                   /\ gRun' = SetW(t, [r EXCEPT !.cnt = w.cnt, !.data = w.data, !.i = @ + 1])
         [] r.pc = "send_rd" ->
              \* the frame prefix is built from fRecvCount and fSendCredits
              IF fConn[i].fWSId = 0 \/ ~fWSHandler \/ fConn[i].fSendCredits <= 0
              THEN /\ gRun' = SetW(t, [r EXCEPT !.i = @ + 1, !.pc = "sub_next"])
                   /\ UNCHANGED fConn
              ELSE /\ gRun' = SetW(t, [r EXCEPT !.tmp = fConn[i].fSendCredits, !.pc = "send_wr"])
                   /\ UNCHANGED fConn
         [] r.pc = "send_wr" ->
              \* conn.fRecvCount = 0; conn.fSendCredits--
              /\ fConn' = [fConn EXCEPT ![i].fRecvCount = 0, ![i].fSendCredits = r.tmp - 1]
              /\ gRun' = SetW(t, [r EXCEPT !.i = @ + 1, !.pc = "sub_next"])
         [] r.pc = "drain" ->
              /\ fConn' = CheckDataToSend(Seen, OnlyOnceDefault).conn
              /\ gRun' = SetW(t, [r EXCEPT !.pc = "done"])
    /\ UNCHANGED <<fConnCnt, fKeys, fPanelName, fConnLimit, fNativeOnlyConn,
                   fDataCallback, fWSHandler, out, gSince, gNote>>

\* a window set up to be shown, open to any client
InitRace ==
    /\ fConn = <<>>
    /\ fConnCnt = 0
    /\ fKeys = [k \in {KeyA} |-> ProcA]
    /\ fPanelName = <<>>
    /\ fConnLimit = 0 /\ fNativeOnlyConn = FALSE
    /\ fDataCallback = TRUE
    /\ fWSHandler = TRUE
    /\ out = NoOut("ctor", 0)
    /\ gSince = [id \in {} |-> 0]
    /\ gNote = [closed |-> {}, ready |-> [id \in {} |-> 0]]
    /\ gRun = NoRun

\* sessions are set up one event at a time; then two workers are in handlers
\* at once
NextRace ==
    \/ \E ws \in Workers : ~gRun.on /\ WSReady(ws)
    \/ \E ws \in Workers, f \in RaceFrames : ~gRun.on /\ WSData(ws, f)
    \/ \E connid \in ConnIds : ~gRun.on /\ SendBinaryAct(connid)
    \/ \E f, g \in RaceFrames : Fork(DataJob(1, f), DataJob(2, g))
    \/ \E f \in RaceFrames, connid \in ConnIds : Fork(DataJob(1, f), SubmitJob(connid))
    \/ \E t \in Workers : DataStep(t)
    \/ \E t \in Workers : SubmitStep(t)

SpecRace == InitRace /\ [][NextRace]_vars

---------------------------------------------------------------------------
(* What a step shows of one connection *)

ConnIdsOf(conns) == {conns[i].fConnId : i \in 1..Len(conns)}

ConnById(conns, id) == conns[CHOOSE i \in 1..Len(conns) : conns[i].fConnId = id]

\* the frames of a handler run that went to the connection
FramesTo(o, id) == SelectSeq(o.sent, LAMBDA f : f.id = id)

IsKeepAlive(f) == f.chid = 0 /\ f.txt /\ f.data = Str_KEEPALIVE

ItemOf(f) == QueueItem(f.chid, f.txt, f.data)

\* the submitted items among the frames that went to the connection
ItemsTo(o, id) ==
    LET fs == SelectSeq(o.sent, LAMBDA f : f.id = id /\ ~IsKeepAlive(f))
    IN [k \in 1..Len(fs) |-> ItemOf(fs[k])]

\* the items a handler run submitted for the connection
SubsFor(o, id) ==
    LET bs == SelectSeq(o.subs, LAMBDA b : b.connid = 0 \/ b.connid = id)
    IN [k \in 1..Len(bs) |-> QueueItem(bs[k].chid, bs[k].txt, bs[k].data)]

QueueBefore(id) == IF id \in ConnIdsOf(fConn) THEN ConnById(fConn, id).fQueue ELSE <<>>

IsPrefix(s, t) == Len(s) <= Len(t) /\ s = SubSeq(t, 1, Len(s))

ULongGeOne(u) == u.neg \/ u.mag >= 1

OverflowError == "Maximum queue length achieved"

DecodeErrors ==
    {"missing number of acknowledged operations", "missing can_send counter",
     "missing channel number", "corrupted buffer"}

HasError(o, msgs) == \E k \in 1..Len(o.errs) : o.errs[k] \in msgs

---------------------------------------------------------------------------
(* C1 *)

C1_NonNegative == \A i \in 1..Len(fConn) : fConn[i].fSendCredits >= 0

\* a step adds to a connection's credits at most what the frame decoded on it
\* acknowledges (a negated unsigned long is above every int)
C1_Granted ==
    \A i \in 1..Len(fConn') :
        LET c == fConn'[i]
            before == IF c.fConnId \in ConnIdsOf(fConn)
                      THEN ConnById(fConn, c.fConnId).fSendCredits
                      ELSE InitSendCredits
            grant == IF out'.decoded /\ out'.id = c.fWSId THEN out'.ackn ELSE NoAckn
        IN grant.neg \/ c.fSendCredits <= before + grant.mag

\* C1: the send credits of every connection are never negative and never
\* above the initial allowance plus the acknowledgements received so far,
\* whatever acknowledged-operations value a frame carries.
C1_CreditsWithinGrants == []C1_NonNegative /\ [][C1_Granted]_vars

---------------------------------------------------------------------------
(* C2 *)

\* C2: a Data event on a channel >= 1 never makes the default callback run
\* with a payload or CONN_READY, nor a channel callback run, for a connection
\* that is still Pending.
C2_PendingNeverDispatched ==
    (out.op = "WS_DATA" /\ out.decoded /\ ~ULongIsZero(out.nchannel)) =>
        \A k \in 1..Len(out.calls) :
            out.calls[k].stage = StagePending =>
                /\ out.calls[k].to # "channel"
                /\ out.calls[k].to = "data" => out.calls[k].data = Str_CONN_CLOSED

---------------------------------------------------------------------------
(* C3 *)

\* the items that went to connection id in this step are the front of its
\* queue followed by what the step submitted, and the queue keeps the rest
C3_InOrder(id) ==
    LET S == ItemsTo(out', id)
        L == QueueBefore(id) \o SubsFor(out', id)
    IN IF id \in ConnIdsOf(fConn')
       THEN S \o ConnById(fConn', id).fQueue \in {L, QueueBefore(id)}
       ELSE IsPrefix(S, L)

\* C3: for every connection, the submitted items reach the transport in the
\* order in which they were submitted, whatever happens on other connections.
C3_FifoPerConnection ==
    [][\A id \in ConnIdsOf(fConn) \cup ConnIdsOf(fConn') : C3_InOrder(id)]_vars

\* a drain sent two different queued items to one of two connections
C3_Witness ==
    /\ Len(fConn) = 2
    /\ \E id \in ConnIdsOf(fConn) :
          LET S == ItemsTo(out, id) IN Len(S) >= 2 /\ S[1] # S[2]

---------------------------------------------------------------------------
(* C4 *)

C4_QueueBounded == \A i \in 1..Len(fConn) : Len(fConn[i].fQueue) <= fMaxQueueLength

\* a call of SubmitData meets a connection that cannot send directly and
\* whose queue is full
C4_Overflow ==
    out'.op = "SubmitData" =>
        \A i \in 1..Len(fConn) :
            LET c == fConn[i] IN
            (/\ out'.id \in {0, c.fConnId}
             /\ ~(c.fQueue = <<>> /\ c.fSendCredits > 0)
             /\ Len(c.fQueue) >= fMaxQueueLength) =>
                /\ c.fConnId \in ConnIdsOf(fConn')
                /\ ConnById(fConn', c.fConnId).fQueue = c.fQueue
                /\ HasError(out', {OverflowError})

\* C4: no queue is ever longer than the maximum, and a submit that meets a
\* full queue on a connection that cannot send directly leaves that queue as
\* it is and reports the overflow.
C4_QueueLimit == []C4_QueueBounded /\ [][C4_Overflow]_vars

C4_Witness ==
    /\ out.op = "SubmitData"
    /\ HasError(out, {OverflowError})
    /\ \E i \in 1..Len(fConn) : Len(fConn[i].fQueue) = fMaxQueueLength

---------------------------------------------------------------------------
(* C5 *)

C5_Acknowledges(id) ==
    LET F == FramesTo(out', id)
        wsid == IF id \in ConnIdsOf(fConn') THEN ConnById(fConn', id).fWSId
                ELSE ConnById(fConn, id).fWSId
        since == (IF id \in DOMAIN gSince THEN gSince[id] ELSE 0)
                 + (IF out'.decoded /\ out'.id = wsid THEN 1 ELSE 0)
    IN F # <<>> =>
          /\ F[1].ackn = since
          /\ \A k \in 2..Len(F) : F[k].ackn = 0
          /\ id \in ConnIdsOf(fConn') => ConnById(fConn', id).fRecvCount = 0

\* C5: every frame sent carries as acknowledgement the number of frames
\* decoded on its connection since the previous frame sent on it (or since the
\* connection was created), and the receive counter is zero after a send.
C5_AckIsDecodedSinceLastSend ==
    [][\A id \in ConnIdsOf(fConn) \cup ConnIdsOf(fConn') : C5_Acknowledges(id)]_vars

\* a frame acknowledged two received frames
C5_Witness == \E k \in 1..Len(out.sent) : out.sent[k].ackn >= 2

---------------------------------------------------------------------------
(* C6 *)

\* C6: with a connection limit L > 0 there are never more than L connections
\* (a Ready event for a new websocket id at the limit creates none).
C6_LimitHolds == fConnLimit > 0 => Len(fConn) <= fConnLimit

---------------------------------------------------------------------------
(* C7 *)

\* the step decodes READY=<key> on the system channel from the Pending
\* connection at position i, the key is a known one and a panel is named
PanelHello(i) ==
    /\ out'.op = "WS_DATA" /\ out'.decoded
    /\ out'.id = fConn[i].fWSId
    /\ fConn[i].fReady = StagePending
    /\ fPanelName # <<>>
    /\ ULongIsZero(out'.nchannel)
    /\ StartsWith(out'.cdata, Str_READY)
    /\ Substr(out'.cdata, 6) \in DOMAIN fKeys

ShowPanel(chid) == QueueItem(chid, TRUE, Str_SHOWPANEL \o fPanelName)

InPanelWait(id) ==
    id \in ConnIdsOf(fConn') /\ ConnById(fConn', id).fReady = StagePanelWait

---------------------------------------------------------------------------
(* C8 *)

\* C8: when a connection holds a queued item and has no credits, a frame
\* decoded on it that acknowledges at least one operation makes the handler
\* send the oldest queued item before it returns (the connection staying
\* registered).
C8_AckDrainsOldest ==
    [][\A i \in 1..Len(fConn) :
          LET c == fConn[i] IN
          (/\ out'.op = "WS_DATA" /\ out'.decoded /\ out'.ret = "true"
           /\ out'.id = c.fWSId
           /\ c.fSendCredits = 0 /\ c.fQueue # <<>>
           /\ ULongGeOne(out'.ackn)
           /\ c.fConnId \in ConnIdsOf(fConn')) =>
              LET F == FramesTo(out', c.fConnId)
              IN F # <<>> /\ ItemOf(F[1]) = Head(c.fQueue)]_vars

---------------------------------------------------------------------------
(* C9 *)

\* C9: a Data event whose prefix does not decode is rejected, changes no
\* connection, invokes no callback and sends nothing.
C9_RejectedFrameChangesNothing ==
    [][(out'.op = "WS_DATA" /\ HasError(out', DecodeErrors)) =>
          /\ out'.ret = "false"
          /\ ~out'.decoded
          /\ fConn' = fConn
          /\ out'.calls = <<>>
          /\ out'.sent = <<>>]_vars

\* a frame cut short was refused on a connection that holds a queued item
C9_Witness ==
    /\ out.op = "WS_DATA"
    /\ out.errs = <<"corrupted buffer">>
    /\ \E i \in 1..Len(fConn) : fConn[i].fWSId = out.id /\ fConn[i].fQueue # <<>>

---------------------------------------------------------------------------
(* C10 *)

RefusedKey(i) ==
    /\ out'.op = "WS_DATA" /\ out'.decoded
    /\ out'.id = fConn[i].fWSId
    /\ fConn[i].fReady = StagePending
    /\ ULongIsZero(out'.nchannel)
    /\ StartsWith(out'.cdata, Str_READY)
    /\ Substr(out'.cdata, 6) \notin DOMAIN fKeys
    /\ fNativeOnlyConn

---------------------------------------------------------------------------
(* C11 *)

\* C11: READY=<key> from a Pending connection with a key that is not in the
\* key table, on a window that admits only native clients, is rejected: the
\* connection is removed, the key table stays as it is, no callback is
\* invoked (no CONN_READY) and no frame is sent (no SHOWPANEL).
C11_RefusedKeyLeavesNoTrace ==
    [][\A i \in 1..Len(fConn) :
          RefusedKey(i) =>
              /\ out'.ret = "false"
              /\ fConn[i].fConnId \notin ConnIdsOf(fConn')
              /\ Len(fConn') = Len(fConn) - 1
              /\ fKeys' = fKeys
              /\ out'.calls = <<>>
              /\ out'.sent = <<>> /\ out'.subs = <<>>]_vars

\* a key was refused while the table holds another key and a panel is named
C11_Witness ==
    /\ out.op = "WS_DATA" /\ out.decoded /\ out.ret = "false"
    /\ fNativeOnlyConn
    /\ Substr(out.cdata, 6) = KeyZ
    /\ KeyA \in DOMAIN fKeys
    /\ fPanelName # <<>>
    /\ fConn = <<>>

---------------------------------------------------------------------------
(* C12 *)

\* the step decodes READY=<key> on the system channel from the Pending
\* connection at position i and the key is in the key table
KeyHello(i) ==
    /\ out'.op = "WS_DATA" /\ out'.decoded
    /\ out'.id = fConn[i].fWSId
    /\ fConn[i].fReady = StagePending
    /\ ULongIsZero(out'.nchannel)
    /\ StartsWith(out'.cdata, Str_READY)
    /\ Substr(out'.cdata, 6) \in DOMAIN fKeys

ProcBefore(id) == IF id \in ConnIdsOf(fConn) THEN ConnById(fConn, id).fProcId ELSE NoProc

\* a key is taken out of the table by the READY= that presents it, which
\* attaches its process to that connection; nothing else removes an entry
\* or attaches a process
C12_Consumes ==
    /\ \A i \in 1..Len(fConn) :
          KeyHello(i) =>
              LET key == Substr(out'.cdata, 6) IN
              /\ fKeys' = [k \in (DOMAIN fKeys) \ {key} |-> fKeys[k]]
              /\ fConn[i].fConnId \in ConnIdsOf(fConn')
              /\ ConnById(fConn', fConn[i].fConnId).fProcId = fKeys[key]
    /\ (~\E i \in 1..Len(fConn) : KeyHello(i)) =>
          \A k \in DOMAIN fKeys : k \in DOMAIN fKeys' /\ fKeys'[k] = fKeys[k]
    /\ \A j \in 1..Len(fConn') :
          fConn'[j].fProcId # ProcBefore(fConn'[j].fConnId) =>
              \E i \in 1..Len(fConn) : KeyHello(i) /\ fConn[i].fConnId = fConn'[j].fConnId

\* no process is attached to two connections, nor to a connection while its
\* key is still in the table
C12_OneConnectionPerKey ==
    /\ \A i, j \in 1..Len(fConn) :
          (i # j /\ fConn[i].fProcId # NoProc) => fConn[i].fProcId # fConn[j].fProcId
    /\ \A i \in 1..Len(fConn) : \A k \in DOMAIN fKeys : fKeys[k] # fConn[i].fProcId

\* C12: a key table entry is consumed exactly once: the first READY=<key>
\* from a Pending connection attaches the process of the key to that
\* connection and removes the entry, so a key attaches its process to at
\* most one connection, and no other event removes entries.
C12_KeyConsumedOnce == []C12_OneConnectionPerKey /\ [][C12_Consumes]_vars

\* two connections presented the same key: the first got the process
C12_Witness ==
    /\ Len(fConn) = 2
    /\ DOMAIN fKeys = {}
    /\ fConn[1].fProcId = ProcA /\ fConn[1].fReady = StageReady
    /\ fConn[2].fProcId = NoProc /\ fConn[2].fReady = StageReady

---------------------------------------------------------------------------
(* C13 *)

\* the connections a filter selects
Matches(connid, conn) == connid = 0 \/ connid = conn.fConnId

\* C13: CanSend changes no state, and when CanSend(connid, direct = true)
\* answered true, the SubmitData that follows with the same filter sends
\* directly on every matching connection: nothing is enqueued or dropped.
C13_CanSendDirectIsDirect ==
    [][/\ out'.op = "CanSend" =>
             UNCHANGED <<fConn, fConnCnt, fKeys, fPanelName, fConnLimit,
                         fNativeOnlyConn, fDataCallback, fWSHandler>>
       /\ (/\ out.op = "CanSend" /\ out.direct /\ out.ret = "true"
           /\ out'.op = "SubmitData" /\ out'.id = out.id) =>
             /\ \A k \in 1..Len(out'.served) : out'.served[k].how = "direct"
             /\ \A i \in 1..Len(fConn) :
                   Matches(out.id, fConn[i]) =>
                       /\ \E k \in 1..Len(out'.served) : out'.served[k].id = fConn[i].fConnId
                       /\ ItemsTo(out', fConn[i].fConnId) = SubsFor(out', fConn[i].fConnId)
                       /\ fConn'[i].fQueue = <<>>]_vars

---------------------------------------------------------------------------
(* C14 *)

\* the callback and the manager as a Close event for the connection calls them
CloseCalls(conn) ==
    (IF fDataCallback
     THEN <<[to |-> "data", id |-> conn.fConnId, data |-> Str_CONN_CLOSED,
             stage |-> conn.fReady, proc |-> conn.fProcId]>>
     ELSE <<>>)
    \o <<[to |-> "halt", id |-> conn.fConnId, data |-> <<>>,
          stage |-> conn.fReady, proc |-> conn.fProcId]>>

\* C14: a Close event for a websocket id that has a connection delivers
\* CONN_CLOSED with the connection id to the data callback (when one is
\* assigned), then asks the manager to halt the process of the connection,
\* then removes the connection and nothing else; a Close event for an id
\* without connection is accepted and changes nothing.
C14_CloseNotifiesHaltsRemoves ==
    [][out'.op = "WS_CLOSE" =>
          /\ out'.ret = "true"
          /\ out'.sent = <<>>
          /\ fKeys' = fKeys /\ fConnCnt' = fConnCnt
          /\ IF \E i \in 1..Len(fConn) : fConn[i].fWSId = out'.id
             THEN LET i == CHOOSE i \in 1..Len(fConn) : fConn[i].fWSId = out'.id
                  IN /\ out'.calls = CloseCalls(fConn[i])
                     /\ fConn' = SubSeq(fConn, 1, i - 1) \o SubSeq(fConn, i + 1, Len(fConn))
             ELSE /\ out'.calls = <<>>
                  /\ fConn' = fConn]_vars

\* a connection with a process was closed: the callback, then the manager
C14_Witness ==
    /\ out.op = "WS_CLOSE"
    /\ Len(out.calls) = 2
    /\ out.calls[1].to = "data" /\ out.calls[1].data = Str_CONN_CLOSED
    /\ out.calls[2].to = "halt" /\ out.calls[2].proc = ProcA
    /\ FindConn(fConn, out.id) = 0

---------------------------------------------------------------------------
(* C15 *)

IsCallBack(c) == c.to \in {"data", "channel"}

Delivers(c, id, what) == c.to = "data" /\ c.id = id /\ c.data = what

\* no callback of the step carries an id that was told CONN_CLOSED, in an
\* earlier step or earlier in this one
C15_ClosedIsLast ==
    \A k \in 1..Len(out'.calls) :
        IsCallBack(out'.calls[k]) =>
            /\ out'.calls[k].id \notin gNote.closed
            /\ \A j \in 1..(k - 1) : ~Delivers(out'.calls[j], out'.calls[k].id, Str_CONN_CLOSED)

\* the frames of a handler follow its callbacks: none goes to an id that was
\* told CONN_CLOSED
C15_ClosedGetsNoFrame ==
    \A k \in 1..Len(out'.sent) : out'.sent[k].id \notin gNote'.closed

C15_ReadyOnce == \A id \in DOMAIN gNote.ready : gNote.ready[id] <= 1

\* C15: once CONN_CLOSED was delivered to the data callback for a connection
\* id, no later callback carries that id and no frame goes to it; CONN_READY
\* is delivered at most once per connection id.
C15_ClosedIsFinalReadyIsOnce ==
    []C15_ReadyOnce /\ [][C15_ClosedIsLast /\ C15_ClosedGetsNoFrame]_vars

---------------------------------------------------------------------------
(* C16 *)

\* C16: no inbound event makes the handler fail on an unset callback handle;
\* a Data event on a channel above 1 of a Ready connection without channel
\* callback is accepted with no dispatch.
C16_UnsetCallbackIsHarmless ==
    out.op \in {"WS_CONNECT", "WS_READY", "WS_CLOSE", "WS_DATA", "WS_OTHER"} =>
        out.ret # "throw"

---------------------------------------------------------------------------
(* C17 *)

Count(s, x) == Cardinality({k \in 1..Len(s) : s[k] = x})

\* the items the step accepted for connection id, sent at once or enqueued
AcceptedFor(id) ==
    LET es == SelectSeq(out'.served, LAMBDA e : e.id = id /\ e.how # "overflow")
    IN [k \in 1..Len(es) |-> QueueItem(out'.subs[1].chid, out'.subs[1].txt, es[k].data)]

\* every item that was in the queue of the connection or was accepted for it
\* is, as often as it was there, either in a frame of the step or still in
\* the queue
C17_Conserved(id) ==
    LET T == ItemsTo(out', id)
        Q == ConnById(fConn', id).fQueue
        B == QueueBefore(id)
        A == AcceptedFor(id)
        all == {T[k] : k \in 1..Len(T)} \cup {Q[k] : k \in 1..Len(Q)}
               \cup {B[k] : k \in 1..Len(B)} \cup {A[k] : k \in 1..Len(A)}
    IN \A x \in all : Count(B, x) + Count(A, x) = Count(T, x) + Count(Q, x)

\* C17: every item the drain takes from the queue of a connection goes to the
\* transport as exactly one frame with the channel, text flag and payload of
\* the item: while the connection exists no queued item is dropped and none
\* is sent twice.
C17_DrainedIsSentOnce ==
    [][\A id \in ConnIdsOf(fConn) \cap ConnIdsOf(fConn') : C17_Conserved(id)]_vars

\* a step sent an item that was waiting in the queue
C17_Witness ==
    /\ out.sweeps > 0
    /\ \E k \in 1..Len(out.sent) :
           /\ ~IsKeepAlive(out.sent[k])
           /\ \A j \in 1..Len(out.served) :
                  ~(out.served[j].id = out.sent[k].id /\ out.served[j].how = "direct")

---------------------------------------------------------------------------
(* C18 *)

CanDrain(conn) ==
    /\ conn.fSendCredits > 0
    /\ \/ conn.fQueue # <<>>
       \/ conn.fClientCredits < KeepAliveMark /\ conn.fRecvCount > 1

\* C18: every drain pass ends, after no more sweeps than frames it sent plus
\* one closing sweep per pass, and a handler that ran it returns with no
\* connection that has positive send credits and either a queued item or the
\* keep-alive condition.
C18_DrainEndsQuiescent ==
    out.sweeps > 0 =>
        /\ \A i \in 1..Len(fConn) : ~CanDrain(fConn[i])
        /\ out.sweeps <= Len(out.sent) + 2

\* a drain pass needed two sweeps with progress before the closing one
C18_Witness ==
    /\ out.sweeps >= 3
    /\ \E id \in ConnIdsOf(fConn) : Len(FramesTo(out, id)) >= 2

---------------------------------------------------------------------------
(* C19 *)

KeepAlivesTo(o, id) == SelectSeq(o.sent, LAMBDA f : f.id = id /\ IsKeepAlive(f))

SinceBefore(id) == IF id \in DOMAIN gSince THEN gSince[id] ELSE 0

\* a keep-alive to connection id is the only frame of the step to it, goes
\* on channel 0 with nothing queued before or after, with send credits of
\* which it takes one, to a peer that advertised less than KeepAliveMark
\* credits, and acknowledges the two or more frames decoded since the last
\* frame sent
C19_KeepAlive(id) ==
    LET F == FramesTo(out', id)
        c == ConnById(fConn', id)
        dec == IF out'.decoded /\ out'.id = c.fWSId THEN 1 ELSE 0
    IN KeepAlivesTo(out', id) # <<>> =>
          /\ Len(F) = 1
          /\ F[1].chid = 0
          /\ QueueBefore(id) = <<>> /\ c.fQueue = <<>>
          /\ \A k \in 1..Len(out'.served) : out'.served[k].id # id
          /\ F[1].credits >= 1
          /\ c.fSendCredits = F[1].credits - 1
          /\ c.fClientCredits < KeepAliveMark
          /\ F[1].ackn >= 2
          /\ F[1].ackn = SinceBefore(id) + dec
          /\ c.fRecvCount = 0

\* C19: a keep-alive goes to a connection only when its queue is empty, it
\* has send credits, the peer last advertised fewer than 3 receive credits
\* and more than one frame was received since the last frame sent; it goes on
\* channel 0, takes one send credit and resets the receive counter, so two
\* keep-alives to one connection are at least two received frames apart.
C19_KeepAliveOnlyWhenDue ==
    [][/\ \A k \in 1..Len(out'.sent) :
              IsKeepAlive(out'.sent[k]) => out'.sent[k].id \in ConnIdsOf(fConn')
       /\ \A id \in ConnIdsOf(fConn') : C19_KeepAlive(id)]_vars

\* a keep-alive was sent
C19_Witness ==
    \E k \in 1..Len(out.sent) : IsKeepAlive(out.sent[k]) /\ out.sent[k].credits >= 1

---------------------------------------------------------------------------
(* C20 *)

IsBroadcast(o) == o.op = "SubmitData" /\ o.id = 0 /\ o.subs # <<>>

Enqueues(o) == SelectSeq(o.served, LAMBDA e : e.how \in {"copy", "move"})

\* every connection that got the submission, sent at once or enqueued, got
\* the submitted payload
C20_FullPayload ==
    \A k \in 1..Len(out.served) :
        out.served[k].how # "overflow" => out.served[k].data = out.subs[1].data

\* C20 as stated: in a Submit to all connections the payload is moved into
\* the first enqueue and copied for the later ones, and every connection that
\* transmits or enqueues gets the full payload.
C20_MoveFirstThenCopy ==
    IsBroadcast(out) =>
        /\ C20_FullPayload
        /\ LET E == Enqueues(out)
           IN E # <<>> => /\ E[1].how = "move"
                          /\ \A k \in 2..Len(E) : E[k].how = "copy"

\* C20 as the code has it: in a Submit to all connections every enqueue
\* copies the payload, except that the enqueue for the last connection moves
\* it when all connections enqueued; every connection that transmits or
\* enqueues gets the full payload, for every mix of direct sends, enqueues
\* and overflows.
C20_CopyThenMoveLast ==
    IsBroadcast(out) =>
        /\ C20_FullPayload
        /\ Len(out.served) = Len(fConn)
        /\ \A k \in 1..Len(out.served) :
               out.served[k].how = "move" <=>
                   /\ k = Len(out.served)
                   /\ \A j \in 1..Len(out.served) : out.served[j].how \in {"copy", "move"}

\* a Submit to all connections was enqueued for two connections
C20_Witness ==
    /\ IsBroadcast(out)
    /\ Len(out.served) = 2
    /\ out.served[1].how = "copy" /\ out.served[2].how = "move"
    /\ out.served[1].data # MovedFrom

\* a Submit to all connections met a direct send and an enqueue
C20_WitnessMixed ==
    /\ IsBroadcast(out)
    /\ \E j, k \in 1..Len(out.served) :
           out.served[j].how = "direct" /\ out.served[k].how = "copy"

---------------------------------------------------------------------------
(* C21 *)

\* what the handler of a job does to the window when it runs alone
RunAlone(m, job) ==
    IF job.kind = "data"
    THEN ProcessData(m, FindConn(m.conn, job.ws),
                     [wsid |-> job.ws, method |-> "WS_DATA", buf |-> job.buf, len |-> job.len])
    ELSE SendBinary(m, job.connid, RaceData)

\* the window after worker a's handler and then worker b's, from the state
\* in which the two were started
OneAfterOther(a, b) ==
    LET m0 == [conn |-> gRun.start.conn, cnt |-> gRun.start.cnt,
               keys |-> gRun.start.keys, out |-> NoOut("worker", 0)]
        m1 == RunAlone(m0, gRun.w[a].job)
        m2 == RunAlone(m1, gRun.w[b].job)
    IN [conn |-> m2.conn, cnt |-> m2.cnt, keys |-> m2.keys]

BothDone == gRun.on /\ \A t \in Workers : gRun.w[t].pc = "done"

\* C21: when two workers run handlers of one window at once (two ProcessWS
\* events, or ProcessWS with SubmitData), the window ends in a state that
\* running the two handlers one after the other gives: no credit update or
\* enqueue is lost and a key attaches its process to one connection only.
C21_AsIfOneAfterOther ==
    BothDone =>
        [conn |-> fConn, cnt |-> fConnCnt, keys |-> fKeys]
            \in {OneAfterOther(1, 2), OneAfterOther(2, 1)}

\* both handlers returned and a credit update was lost, or one key gave its
\* process to two connections
C21_LostUpdate ==
    /\ BothDone
    /\ \A p \in {<<1, 2>>, <<2, 1>>} :
           \E i \in 1..Len(fConn) :
               fConn[i].fSendCredits # OneAfterOther(p[1], p[2]).conn[i].fSendCredits

C21_KeyUsedTwice ==
    /\ BothDone
    /\ \E i, j \in 1..Len(fConn) :
           i # j /\ fConn[i].fProcId = ProcA /\ fConn[j].fProcId = ProcA

=============================================================================
